---- MODULE Spec2Model ----
(***************************************************************************)
(* kidconnect-ifttt: one run of main.py loads the snapshot, fetches news,  *)
(* events and the tracked conversations, diffs them against the snapshot,  *)
(* triggers one webhook call per new record and rewrites the snapshot.     *)
(* The pure helpers (new_items, nl2br, HistoryManager.load/store, the page *)
(* extraction) have their own small specifications.                        *)
(***************************************************************************)
EXTENDS Integers, Sequences, FiniteSets, TLC

VARIABLES
    \* ---- the run (main.py, __main__) ----
    file,               \* the snapshot file at config.HISTORY_FILE
    pc,                 \* position of the process in __main__
    last_seen,          \* <<last_seen_news, last_seen_events, last_seen_conversations>>
    news, events, conversations,              \* the current fetch
    new_news, new_events, new_conversations,  \* the diff
    k,                  \* number of ifttt.trigger calls made by this run
    \* ---- observers of the run (not program state) ----
    delivered,          \* <<collection, id>> of every record the webhook accepted
    fileAtStart,        \* the file as it was when this run started
    httpFailed,         \* some trigger of this run got an HTTP error response
    stored,             \* this run called hm.store
    same,               \* this run's fetch equals the fetch held before it
    prevDone,           \* the run before this one completed
    fetch_failed,       \* a fetch step of this run raised
    \* ---- the pure helpers ----
    phase,              \* position of a helper specification
    current, history, result,   \* new_items(current, history)
    s, once, twice,             \* nl2br(s), nl2br(nl2br(s))
    page, page_news,            \* _get_news: fragments of a page, extraction
    kwargs, loaded              \* hm.store(**kwargs), hm.load(*kwargs)

runVars  == <<file, pc, last_seen, news, events, conversations, new_news,
              new_events, new_conversations, k, delivered, fileAtStart,
              httpFailed, stored, same, prevDone, fetch_failed>>
pureVars == <<phase, current, history, result, s, once, twice, page,
              page_news, kwargs, loaded>>
vars     == <<runVars, pureVars>>

(***************************************************************************)
(* Bounds                                                                  *)
(***************************************************************************)
MaxId     == 2    \* distinct record ids given to new_items
MaxLen    == 2    \* longest record sequence given to new_items
MaxStrLen == 3    \* longest string given to nl2br (before an optional token)
MaxFrags  == 3    \* most fragments on one page
MaxNews   == 2    \* news posts the portal can show

\* The contents a record of one id can have (a post can be edited).
Bodies == {"a", "b"}
\* The calendar entries and the messages the portal can show.
EventContents   == {"fete"}
MessageContents == {"hello"}

(***************************************************************************)
(* Python values                                                           *)
(***************************************************************************)
\* Optional values: None and a present value.
None    == [some |-> FALSE, val |-> <<>>]
Some(v) == [some |-> TRUE, val |-> v]

\* `x or default`: None, [] and {} are falsy.
Or(x, default) == IF x.some /\ DOMAIN x.val # {} THEN x.val ELSE default

\* dict.get(key, default)
Get(d, key, default) == IF key \in DOMAIN d THEN d[key] ELSE default

\* An int and the str of its decimal digits are different dict keys.
PyInt(n) == <<"int", n>>
str(x)   == <<"str", x[2]>>

\* All sequences over S of length at most n.
SeqsUpTo(S, n) == UNION {[1..m -> S] : m \in 0..n}

(***************************************************************************)
(* new_items                                                               *)
(***************************************************************************)
\* A plausible slip: compares whole records instead of ids.
new_items_by_value(cur, hist) ==
    SelectSeq(cur, LAMBDA c : c \notin {hist[i] : i \in DOMAIN hist})

new_items(cur, hist) ==
    LET history_ids == {hist[i].id : i \in DOMAIN hist}
    IN  SelectSeq(cur, LAMBDA c : c.id \notin history_ids)

(***************************************************************************)
(* nl2br: strings are sequences of characters                              *)
(***************************************************************************)
CRLF == <<"\r", "\n">>
LF   == <<"\n">>
BR   == <<"<", "b", "r", " ", "/", ">">>
BRLF == BR \o LF

IsPrefix(p, t) == Len(p) <= Len(t) /\ SubSeq(t, 1, Len(p)) = p

RECURSIVE replace(_, _, _)
\* str.replace(old, new): every non-overlapping occurrence, left to right.
replace(t, old, new) ==
    IF t = <<>> THEN <<>>
    ELSE IF IsPrefix(old, t)
         THEN new \o replace(SubSeq(t, Len(old) + 1, Len(t)), old, new)
         ELSE <<Head(t)>> \o replace(Tail(t), old, new)

nl2br(t) == replace(replace(replace(t, CRLF, BR), LF, BR), BR, BRLF)

RECURSIVE count(_, _)
\* str.count(sub): the non-overlapping occurrences of sub in t.
count(t, sub) ==
    IF t = <<>> THEN 0
    ELSE IF IsPrefix(sub, t)
         THEN 1 + count(SubSeq(t, Len(sub) + 1, Len(t)), sub)
         ELSE count(Tail(t), sub)

(***************************************************************************)
(* Extraction of one page                                                  *)
(***************************************************************************)
\* A call returns a value or raises.
Return(v) == [raised |-> FALSE, val |-> v]
Raise     == [raised |-> TRUE, val |-> <<>>]

\* sha1 of the canonical JSON of the fields: a function of the content,
\* taken to be free of collisions on the contents modelled.
stable_id(d) == <<"sha1", d>>

\* A fragment is [v |-> content, ok |-> every mandatory field is present].
\* The portal numbers its posts in publication order.
NewsRec(v)    == [id |-> v, date |-> v]
EventRec(v)   == [id |-> stable_id(v), body |-> v]
MessageRec(v) == [id |-> stable_id(v), body |-> v]

\* _parse_news / _parse_message: n[...] on a missing attribute and
\* .get_text() on a find() that returned None raise.
_parse_news(n)    == IF n.ok THEN Return(NewsRec(n.v)) ELSE Raise
_parse_message(m) == IF m.ok THEN Return(MessageRec(m.v)) ELSE Raise

\* [self._parse_news(n) for n in ...]: a raise leaves the comprehension.
_get_news(frags) ==
    IF \E i \in DOMAIN frags : _parse_news(frags[i]).raised
    THEN Raise
    ELSE Return([i \in DOMAIN frags |-> _parse_news(frags[i]).val])

\* [self._parse_message(m) for m in ...]
_get_conversation(frags) ==
    IF \E i \in DOMAIN frags : _parse_message(frags[i]).raised
    THEN Raise
    ELSE Return([i \in DOMAIN frags |-> _parse_message(frags[i]).val])

RECURSIVE sorted_by_date_desc(_)
\* sorted(all_news, key=lambda n: n['date'], reverse=True): stable.
sorted_by_date_desc(seq) ==
    IF seq = <<>> THEN <<>>
    ELSE LET rest == sorted_by_date_desc(Tail(seq))
             h    == Head(seq)
             \* h goes before the first element that is not newer than it
             pos  == Cardinality({i \in DOMAIN rest : rest[i].date > h.date})
         IN  SubSeq(rest, 1, pos) \o <<h>> \o SubSeq(rest, pos + 1, Len(rest))

(***************************************************************************)
(* HistoryManager                                                          *)
(***************************************************************************)
\* The snapshot file: absent, truncated (open(path, 'w') emptied it and
\* json.dump has written nothing or a proper prefix), or a JSON object.
NoFile        == [st |-> "absent", cnt |-> <<>>]
Truncated     == [st |-> "truncated", cnt |-> <<>>]
JsonFile(cnt) == [st |-> "ok", cnt |-> cnt]

\* json.dump of a dict: every key becomes its str.
json_object(d) ==
    [key \in {str(x) : x \in DOMAIN d} |->
        d[CHOOSE x \in DOMAIN d : str(x) = key]]

\* json.load raises on an empty or cut file.
load_raises(f) == f.st = "truncated"

\* A plausible slip: None for every name when there is no file.
load_none_without_file(f, args) ==
    IF f.st = "absent"
    THEN [i \in DOMAIN args |-> None]
    ELSE [i \in DOMAIN args |->
            IF args[i] \in DOMAIN f.cnt THEN Some(f.cnt[args[i]]) ELSE None]

\* HistoryManager.load(*args), for a file json.load accepts or no file.
load(f, args) ==
    IF f.st = "absent"
    THEN [i \in DOMAIN args |-> Some(<<>>)]
    ELSE [i \in DOMAIN args |->
            IF args[i] \in DOMAIN f.cnt THEN Some(f.cnt[args[i]]) ELSE None]

\* A plausible slip: the conversations are left out of the dump.
store_without_conversations(kw) ==
    JsonFile([news |-> kw.news, events |-> kw.events])

\* HistoryManager.store(**kwargs), run to its end: the file after it.
store(kw) ==
    JsonFile([news          |-> kw.news,
              events        |-> kw.events,
              conversations |-> json_object(kw.conversations)])

(***************************************************************************)
(* The run: what the portal and the configuration can hold                 *)
(***************************************************************************)
\* config.CONVERSATIONS.keys(): ids taken from the portal's URLs, ints
\* (line 218 looks them up in the snapshot by their str).
TrackedIds == {PyInt(7)}

\* Sequences over S without repetition, of any length.
Distinct(S) ==
    {q \in SeqsUpTo(S, Cardinality(S)) :
        \A i, j \in DOMAIN q : i # j => q[i] # q[j]}

\* What the pages of the news listing can hold, in page order.
NewsListings  == Distinct({NewsRec(v) : v \in 1..MaxNews})
EventFetches  == Distinct({EventRec(v) : v \in EventContents})
MessageFetches == Distinct({MessageRec(v) : v \in MessageContents})

\* The three arguments of hm.load in __main__.
LoadArgs == <<"news", "events", "conversations">>

\* Snapshots a deployment can start from: none, one written by a version
\* that stored only the news, one written while no conversation was tracked.
InitialFiles ==
    {NoFile}
    \cup {JsonFile([news |-> sorted_by_date_desc(n)]) : n \in NewsListings}
    \cup {JsonFile([news |-> sorted_by_date_desc(n), events |-> <<>>,
                    conversations |-> <<>>]) : n \in NewsListings}

\* The records of a snapshot file, as <<collection, id>>.
FileIds(f) ==
    IF f.st # "ok" THEN {}
    ELSE {<<"news", r.id>> : r \in
            {Get(f.cnt, "news", <<>>)[i] : i \in DOMAIN Get(f.cnt, "news", <<>>)}}
         \cup {<<"events", r.id>> : r \in
            {Get(f.cnt, "events", <<>>)[i] : i \in DOMAIN Get(f.cnt, "events", <<>>)}}
         \cup UNION {{<<"conversation", c[2], r.id>> : r \in
                        {Get(f.cnt, "conversations", <<>>)[c][i] :
                            i \in DOMAIN Get(f.cnt, "conversations", <<>>)[c]}} :
                     c \in DOMAIN Get(f.cnt, "conversations", <<>>)}

(***************************************************************************)
(* The run: __main__                                                       *)
(***************************************************************************)
Resting == {"init", "done", "aborted", "killed"}

\* A plausible slip: the snapshot is looked up by the int id.
last_seen_messages_by_int(lsc, id) == Get(Or(lsc, <<>>), id, <<>>)

\* (last_seen_conversations or {}).get(str(id), [])
last_seen_messages(lsc, id) == Get(Or(lsc, <<>>), str(id), <<>>)

\* A plausible slip: only the news decide whether to store.
should_store_news_only(nn, ne, nc) == nn # <<>>

\* new_news or new_events or any(new_conversations.values())
should_store(nn, ne, nc) ==
    nn # <<>> \/ ne # <<>> \/ \E c \in DOMAIN nc : nc[c] # <<>>

\* The records the three loops of lines 224-250 hand to ifttt.trigger, in
\* order: the news, the events, then the messages of each conversation.
RECURSIVE messages_of(_, _)
messages_of(nc, ids) ==
    IF ids = {} THEN <<>>
    ELSE LET c == CHOOSE x \in ids : \A y \in ids : x[2] <= y[2]
         IN  [i \in DOMAIN nc[c] |-> <<"conversation", c[2], nc[c][i].id>>]
             \o messages_of(nc, ids \ {c})

to_trigger(nn, ne, nc) ==
    [i \in DOMAIN nn |-> <<"news", nn[i].id>>]
    \o [i \in DOMAIN ne |-> <<"events", ne[i].id>>]
    \o messages_of(nc, DOMAIN nc)

Pending == to_trigger(new_news, new_events, new_conversations)

\* The memory of a process that has not computed anything yet.
NoDiff ==
    /\ new_news' = <<>>
    /\ new_events' = <<>>
    /\ new_conversations' = [c \in TrackedIds |-> <<>>]

\* The process ends before its last line: its memory is gone.
Exit(how) ==
    /\ pc' = how
    /\ last_seen' = <<Some(<<>>), Some(<<>>), Some(<<>>)>>
    /\ news' = <<>>
    /\ events' = <<>>
    /\ conversations' = [c \in TrackedIds |-> <<>>]
    /\ NoDiff
    /\ same' = FALSE

\* Lines 204-205: hm.load('news', 'events', 'conversations'); json.load
\* raises on a truncated file and the exception leaves __main__.
Load ==
    /\ pc \in Resting
    /\ IF load_raises(file)
       THEN Exit("aborted")
       ELSE /\ pc' = "loaded"
            /\ last_seen' = load(file, LoadArgs)
            /\ same' = (pc = "done")
            /\ NoDiff
            /\ UNCHANGED <<news, events, conversations>>
    /\ fileAtStart' = file
    /\ k' = 0
    /\ httpFailed' = FALSE
    /\ stored' = FALSE
    /\ prevDone' = (pc = "done")
    /\ fetch_failed' = FALSE
    /\ UNCHANGED <<file, delivered, pureVars>>

\* A fetch step raised: the exception leaves __main__ (logout runs in the
\* finally of logged_in when the session was open).
FetchRaises ==
    /\ Exit("aborted")
    /\ fetch_failed' = TRUE
    /\ UNCHANGED <<file, k, delivered, fileAtStart, httpFailed, stored,
                   prevDone, pureVars>>

\* Line 53: login.
Login ==
    /\ pc = "loaded"
    /\ pc' = "logged_in"
    /\ UNCHANGED <<file, last_seen, news, events, conversations, new_news,
                   new_events, new_conversations, k, delivered, fileAtStart,
                   httpFailed, stored, same, prevDone, fetch_failed, pureVars>>

LoginFails == pc = "loaded" /\ FetchRaises

\* Line 209: kc.get_news().
GetNews ==
    /\ pc = "logged_in"
    /\ \E all_news \in NewsListings :
          /\ news' = sorted_by_date_desc(all_news)
          /\ same' = (same /\ news' = news)
    /\ pc' = "got_news"
    /\ UNCHANGED <<file, last_seen, events, conversations, new_news,
                   new_events, new_conversations, k, delivered, fileAtStart,
                   httpFailed, stored, prevDone, fetch_failed, pureVars>>

GetNewsFails == pc = "logged_in" /\ FetchRaises

\* Line 210: kc.get_upcoming_events().
GetEvents ==
    /\ pc = "got_news"
    /\ \E e \in EventFetches :
          /\ events' = e
          /\ same' = (same /\ e = events)
    /\ pc' = "got_events"
    /\ UNCHANGED <<file, last_seen, news, conversations, new_news,
                   new_events, new_conversations, k, delivered, fileAtStart,
                   httpFailed, stored, prevDone, fetch_failed, pureVars>>

\* A plausible slip: the failure is swallowed and the run goes on with
\* no events.
GetEventsFailsSwallowed ==
    /\ pc = "got_news"
    /\ events' = <<>>
    /\ same' = FALSE
    /\ fetch_failed' = TRUE
    /\ pc' = "got_events"
    /\ UNCHANGED <<file, last_seen, news, conversations, new_news,
                   new_events, new_conversations, k, delivered, fileAtStart,
                   httpFailed, stored, prevDone, pureVars>>

GetEventsFails == pc = "got_news" /\ FetchRaises

\* Line 211: kc.get_conversations(config.CONVERSATIONS.keys()), then the
\* logout of line 57.
GetConversations ==
    /\ pc = "got_events"
    /\ \E c \in [TrackedIds -> MessageFetches] :
          /\ conversations' = c
          /\ same' = (same /\ c = conversations)
    /\ pc' = "fetched"
    /\ UNCHANGED <<file, last_seen, news, events, new_news,
                   new_events, new_conversations, k, delivered, fileAtStart,
                   httpFailed, stored, prevDone, fetch_failed, pureVars>>

GetConversationsFails == pc = "got_events" /\ FetchRaises

\* Lines 213-221: the diff.
Diff ==
    /\ pc = "fetched"
    /\ new_news' = new_items(news, Or(last_seen[1], <<>>))
    /\ new_events' = new_items(events, Or(last_seen[2], <<>>))
    /\ new_conversations' =
          [id \in DOMAIN conversations |->
              new_items(conversations[id], last_seen_messages(last_seen[3], id))]
    /\ pc' = "notify"
    /\ UNCHANGED <<file, last_seen, news, events, conversations, k, delivered,
                   fileAtStart, httpFailed, stored, same, prevDone,
                   fetch_failed, pureVars>>

\* Lines 167-178: one ifttt.trigger call that gets a response. The
\* response is returned and dropped: its status is never read.
Trigger ==
    /\ pc = "notify"
    /\ k < Len(Pending)
    /\ \E accepted \in BOOLEAN :
          /\ delivered' = IF accepted THEN delivered \cup {Pending[k + 1]}
                                      ELSE delivered
          /\ httpFailed' = (httpFailed \/ ~accepted)
    /\ k' = k + 1
    /\ UNCHANGED <<file, pc, last_seen, news, events, conversations, new_news,
                   new_events, new_conversations, fileAtStart, stored, same,
                   prevDone, fetch_failed, pureVars>>

\* requests.post raises (no connection): the exception leaves __main__.
TriggerRaises ==
    /\ pc = "notify"
    /\ k < Len(Pending)
    /\ k' = k + 1
    /\ Exit("aborted")
    /\ UNCHANGED <<file, delivered, fileAtStart, httpFailed, stored,
                   prevDone, fetch_failed, pureVars>>

\* Line 252, condition false: the run ends without a store.
NoStore ==
    /\ pc = "notify"
    /\ k = Len(Pending)
    /\ ~should_store(new_news, new_events, new_conversations)
    /\ pc' = "done"
    /\ UNCHANGED <<file, last_seen, news, events, conversations, new_news,
                   new_events, new_conversations, k, delivered, fileAtStart,
                   httpFailed, stored, same, prevDone, fetch_failed, pureVars>>

\* Lines 252-194: condition true, open(self._path, 'w') empties the file.
StoreOpen ==
    /\ pc = "notify"
    /\ k = Len(Pending)
    /\ should_store(new_news, new_events, new_conversations)
    /\ file' = Truncated
    /\ stored' = TRUE
    /\ pc' = "storing"
    /\ UNCHANGED <<last_seen, news, events, conversations, new_news,
                   new_events, new_conversations, k, delivered, fileAtStart,
                   httpFailed, same, prevDone, fetch_failed, pureVars>>

\* Line 195: json.dump writes the whole object and the file is closed.
StoreDump ==
    /\ pc = "storing"
    /\ file' = store([news |-> news, events |-> events,
                      conversations |-> conversations])
    /\ pc' = "done"
    /\ UNCHANGED <<last_seen, news, events, conversations, new_news,
                   new_events, new_conversations, k, delivered, fileAtStart,
                   httpFailed, stored, same, prevDone, fetch_failed, pureVars>>

\* The process is interrupted (a signal, a power cut) wherever it is.
Kill ==
    /\ pc \notin Resting
    /\ Exit("killed")
    /\ UNCHANGED <<file, k, delivered, fileAtStart, httpFailed, stored,
                   prevDone, fetch_failed, pureVars>>

PureIdle ==
    /\ phase = "idle"
    /\ current = <<>> /\ history = <<>> /\ result = <<>>
    /\ s = <<>> /\ once = <<>> /\ twice = <<>>
    /\ page = <<>> /\ page_news = Return(<<>>)
    /\ kwargs = [news |-> <<>>, events |-> <<>>, conversations |-> <<>>]
    /\ loaded = <<>>

Init ==
    /\ file \in InitialFiles
    /\ pc = "init"
    /\ last_seen = <<Some(<<>>), Some(<<>>), Some(<<>>)>>
    /\ news = <<>> /\ events = <<>>
    /\ conversations = [c \in TrackedIds |-> <<>>]
    /\ new_news = <<>> /\ new_events = <<>>
    /\ new_conversations = [c \in TrackedIds |-> <<>>]
    /\ k = 0
    /\ delivered = FileIds(file)
    /\ fileAtStart = file
    /\ httpFailed = FALSE /\ stored = FALSE /\ same = FALSE
    /\ prevDone = FALSE /\ fetch_failed = FALSE
    /\ PureIdle

Next ==
    \/ Load
    \/ Login \/ LoginFails
    \/ GetNews \/ GetNewsFails
    \/ GetEvents \/ GetEventsFails
    \/ GetConversations \/ GetConversationsFails
    \/ Diff
    \/ Trigger \/ TriggerRaises
    \/ NoStore \/ StoreOpen \/ StoreDump
    \/ Kill

Spec == Init /\ [][Next]_vars

(***************************************************************************)
(* The helpers on their own                                                *)
(***************************************************************************)
\* No run is in progress.
RunIdle ==
    /\ file = NoFile
    /\ pc = "init"
    /\ last_seen = <<Some(<<>>), Some(<<>>), Some(<<>>)>>
    /\ news = <<>> /\ events = <<>>
    /\ conversations = [c \in TrackedIds |-> <<>>]
    /\ new_news = <<>> /\ new_events = <<>>
    /\ new_conversations = [c \in TrackedIds |-> <<>>]
    /\ k = 0
    /\ delivered = {}
    /\ fileAtStart = NoFile
    /\ httpFailed = FALSE /\ stored = FALSE /\ same = FALSE
    /\ prevDone = FALSE /\ fetch_failed = FALSE

\* ---- new_items ----
Records == [id : 1..MaxId, body : Bodies]

InitDiff ==
    /\ RunIdle
    /\ phase = "in"
    /\ current \in SeqsUpTo(Records, MaxLen)
    /\ history \in SeqsUpTo(Records, MaxLen)
    /\ result = <<>>
    /\ s = <<>> /\ once = <<>> /\ twice = <<>>
    /\ page = <<>> /\ page_news = Return(<<>>)
    /\ kwargs = [news |-> <<>>, events |-> <<>>, conversations |-> <<>>]
    /\ loaded = <<>>

CallNewItems ==
    /\ phase = "in"
    /\ result' = new_items(current, history)
    /\ phase' = "out"
    /\ UNCHANGED <<runVars, current, history, s, once, twice, page,
                   page_news, kwargs, loaded>>

SpecDiff == InitDiff /\ [][CallNewItems]_vars

\* ---- nl2br ----
Chars == {"\r", "\n", "x"}

InitNl2br ==
    /\ RunIdle
    /\ phase = "in"
    /\ \E pre \in {<<>>, BR}, t \in SeqsUpTo(Chars, MaxStrLen) : s = pre \o t
    /\ once = <<>> /\ twice = <<>>
    /\ current = <<>> /\ history = <<>> /\ result = <<>>
    /\ page = <<>> /\ page_news = Return(<<>>)
    /\ kwargs = [news |-> <<>>, events |-> <<>>, conversations |-> <<>>]
    /\ loaded = <<>>

CallNl2br ==
    /\ phase = "in"
    /\ once' = nl2br(s)
    /\ phase' = "once"
    /\ UNCHANGED <<runVars, current, history, result, s, twice, page,
                   page_news, kwargs, loaded>>

CallNl2brAgain ==
    /\ phase = "once"
    /\ twice' = nl2br(once)
    /\ phase' = "twice"
    /\ UNCHANGED <<runVars, current, history, result, s, once, page,
                   page_news, kwargs, loaded>>

NextNl2br == CallNl2br \/ CallNl2brAgain

SpecNl2br == InitNl2br /\ [][NextNl2br]_vars

\* ---- the extraction of one page ----
Fragments == [v : 1..MaxNews, ok : BOOLEAN]

InitPage ==
    /\ RunIdle
    /\ phase = "in"
    /\ page \in SeqsUpTo(Fragments, MaxFrags)
    /\ page_news = Return(<<>>)
    /\ current = <<>> /\ history = <<>> /\ result = <<>>
    /\ s = <<>> /\ once = <<>> /\ twice = <<>>
    /\ kwargs = [news |-> <<>>, events |-> <<>>, conversations |-> <<>>]
    /\ loaded = <<>>

\* Lines 69-76 on a page that holds these fragments.
CallGetNews ==
    /\ phase = "in"
    /\ page_news' = _get_news(page)
    /\ phase' = "news"
    /\ UNCHANGED <<runVars, current, history, result, s, once, twice, page,
                   kwargs, loaded>>

\* Lines 139-151 on a listing that holds these fragments.
CallGetConversation ==
    /\ phase = "in"
    /\ page_news' = _get_conversation(page)
    /\ phase' = "conversation"
    /\ UNCHANGED <<runVars, current, history, result, s, once, twice, page,
                   kwargs, loaded>>

NextPage == CallGetNews \/ CallGetConversation

SpecPage == InitPage /\ [][NextPage]_vars

\* ---- HistoryManager.load and store ----
\* The collection sets a run can hand to store: any tracked set.
CollectionSets ==
    {[news |-> sorted_by_date_desc(n), events |-> e, conversations |-> c] :
        n \in NewsListings, e \in EventFetches,
        c \in UNION {[T -> MessageFetches] : T \in SUBSET TrackedIds}}

\* Snapshot files: none, or an object holding any of the three keys.
SnapshotFiles ==
    {NoFile} \cup
    {JsonFile([key \in K |->
                 [news          |-> x.news,
                  events        |-> x.events,
                  conversations |-> json_object(x.conversations)][key]]) :
        x \in CollectionSets, K \in SUBSET {"news", "events", "conversations"}}

\* The names a caller can ask for.
ArgLists == {LoadArgs, <<"conversations">>, <<"unknown_key", "news">>}

InitHM ==
    /\ file \in SnapshotFiles
    /\ pc = "init"
    /\ last_seen = <<Some(<<>>), Some(<<>>), Some(<<>>)>>
    /\ news = <<>> /\ events = <<>>
    /\ conversations = [c \in TrackedIds |-> <<>>]
    /\ new_news = <<>> /\ new_events = <<>>
    /\ new_conversations = [c \in TrackedIds |-> <<>>]
    /\ k = 0
    /\ delivered = {}
    /\ fileAtStart = file
    /\ httpFailed = FALSE /\ stored = FALSE /\ same = FALSE
    /\ prevDone = FALSE /\ fetch_failed = FALSE
    /\ phase = "in"
    /\ kwargs \in CollectionSets
    /\ loaded = [args |-> <<>>, vals |-> <<>>]
    /\ current = <<>> /\ history = <<>> /\ result = <<>>
    /\ s = <<>> /\ once = <<>> /\ twice = <<>>
    /\ page = <<>> /\ page_news = Return(<<>>)

\* hm.load(*args) on the file as it is.
CallLoad ==
    /\ phase = "in"
    /\ \E args \in ArgLists : loaded' = [args |-> args, vals |-> load(file, args)]
    /\ phase' = "loaded"
    /\ UNCHANGED <<runVars, current, history, result, s, once, twice, page,
                   page_news, kwargs>>

\* hm.store(**kwargs)
CallStore ==
    /\ phase = "in"
    /\ file' = store(kwargs)
    /\ phase' = "stored"
    /\ UNCHANGED <<pc, last_seen, news, events, conversations, new_news,
                   new_events, new_conversations, k, delivered, fileAtStart,
                   httpFailed, stored, same, prevDone, fetch_failed,
                   current, history, result, s, once, twice, page,
                   page_news, kwargs, loaded>>

\* hm.load of the keys of kwargs, after the store.
CallLoadBack ==
    /\ phase = "stored"
    /\ loaded' = [args |-> LoadArgs, vals |-> load(file, LoadArgs)]
    /\ phase' = "reloaded"
    /\ UNCHANGED <<runVars, current, history, result, s, once, twice, page,
                   page_news, kwargs>>

NextHM == CallLoad \/ CallStore \/ CallLoadBack

SpecHM == InitHM /\ [][NextHM]_vars

(***************************************************************************)
(* Properties                                                              *)
(***************************************************************************)
\* The positions of cur whose record has an id that hist does not hold.
KeptPositions(cur, hist) ==
    {i \in DOMAIN cur : \A j \in DOMAIN hist : hist[j].id # cur[i].id}

\* q is cur restricted to the positions P, in cur's order.
IsRestriction(q, cur, P) ==
    /\ Len(q) = Cardinality(P)
    /\ \A i \in P : q[Cardinality({j \in P : j <= i})] = cur[i]

\* C1: new_items(current, history) is exactly the subsequence of current
\* made of the records whose id is not an id of history, once per
\* occurrence and in current's order; an empty history returns all of
\* current, and new_items(current, current) is empty.
C1_NewItemsIsFilter ==
    phase = "out" =>
        /\ IsRestriction(result, current, KeptPositions(current, history))
        /\ (history = <<>> => result = current)
        /\ (history = current => result = <<>>)

\* C1 witness: a record of current is dropped because history holds its id
\* with another content, and another record of current is kept.
C1_Witness ==
    /\ phase = "out"
    /\ result # <<>>
    /\ Len(result) < Len(current)
    /\ \E i \in DOMAIN current, j \in DOMAIN history :
          current[i].id = history[j].id /\ current[i] # history[j]

\* The snapshot this run started from has no entry for conversation id.
NoEntryAtStart(id) ==
    \/ fileAtStart.st = "absent"
    \/ "conversations" \notin DOMAIN fileAtStart.cnt
    \/ str(id) \notin DOMAIN fileAtStart.cnt["conversations"]

\* C2: a completed run whose fetch equals the fetch of the completed run
\* right before it triggers no notification and does not write the
\* snapshot; and a run that starts with no snapshot entry for a tracked
\* conversation reports every fetched message of it as new.
C2_SecondRunSilent ==
    /\ (pc = "done" /\ prevDone /\ same) =>
            (k = 0 /\ ~stored /\ file = fileAtStart)
    /\ pc = "notify" =>
            \A id \in TrackedIds :
                NoEntryAtStart(id) => new_conversations[id] = conversations[id]

\* C2 witness: the second of two completed runs with the same fetch, which
\* holds news and a message.
C2_Witness ==
    /\ pc = "done" /\ prevDone /\ same
    /\ news # <<>>
    /\ \E id \in TrackedIds : conversations[id] # <<>>
    /\ file.st = "ok"

\* C3: no record id is in the persisted snapshot unless the webhook took a
\* notification for that record in this run or an earlier one, and a run in
\* which a notification failed leaves the snapshot as it found it.
C3_AtLeastOnce ==
    /\ FileIds(file) \subseteq delivered
    /\ (pc = "done" /\ httpFailed) => file = fileAtStart

\* C4: a run in which a fetch step raised is aborted, has triggered no
\* notification and leaves the snapshot file as it was at its start.
C4_FetchFailureAborts ==
    fetch_failed =>
        /\ pc = "aborted"
        /\ k = 0
        /\ ~stored
        /\ file = fileAtStart

\* C4 witness: a fetch step raised in a run that followed a completed run
\* and started from a snapshot.
C4_Witness ==
    /\ fetch_failed
    /\ pc = "aborted"
    /\ file.st = "ok"
    /\ prevDone

\* C5: at the end of a completed run, if a new record was detected in any
\* collection the snapshot is the complete current fetch (nothing else);
\* otherwise store was not called and the snapshot is unchanged.
C5_SnapshotAfterRun ==
    pc = "done" =>
        IF \/ new_news # <<>>
           \/ new_events # <<>>
           \/ \E id \in TrackedIds : new_conversations[id] # <<>>
        THEN /\ stored
             /\ file.st = "ok"
             /\ DOMAIN file.cnt = {"news", "events", "conversations"}
             /\ file.cnt["news"] = news
             /\ file.cnt["events"] = events
             /\ DOMAIN file.cnt["conversations"] = {str(id) : id \in TrackedIds}
             /\ \A id \in TrackedIds :
                   file.cnt["conversations"][str(id)] = conversations[id]
        ELSE /\ ~stored
             /\ file = fileAtStart

\* C5 witness: a completed run that found a new message and no new news
\* while the fetch also held news the snapshot already had.
C5_Witness ==
    /\ pc = "done"
    /\ stored
    /\ news # <<>>
    /\ new_news = <<>>
    /\ \E id \in TrackedIds : new_conversations[id] # <<>>

\* C6: the overwrite is atomic: whenever no run is in progress, also after
\* a run was interrupted during store, the file holds a complete snapshot
\* (or does not exist), so a later load does not raise.
C6_AtomicStore ==
    pc \in Resting => (file.st \in {"absent", "ok"} /\ ~load_raises(file))

\* The requested names that the file does not hold.
AbsentNames == {i \in DOMAIN loaded.args : loaded.args[i] \notin DOMAIN file.cnt}

\* C7 as stated: load returns an empty sequence, never None, for every
\* requested name absent from an existing snapshot file, and for every
\* requested name when there is no file.
C7_LoadDefaultsToEmpty ==
    phase = "loaded" =>
        /\ file.st = "absent" =>
              \A i \in DOMAIN loaded.args : loaded.vals[i] = Some(<<>>)
        /\ (file.st = "ok" /\ DOMAIN file.cnt # {}) =>
              \A i \in AbsentNames : loaded.vals[i] = Some(<<>>)

\* C7 amended: load never raises on a missing name; for an existing
\* snapshot file it returns None for every requested name the file does not
\* hold and the stored value for every name it holds; with no file it
\* returns an empty sequence for every requested name.
C7_LoadReturnsNoneForAbsent ==
    phase = "loaded" =>
        /\ DOMAIN loaded.vals = DOMAIN loaded.args
        /\ \A i \in DOMAIN loaded.args :
              IF file.st = "absent" THEN loaded.vals[i] = Some(<<>>)
              ELSE IF i \in AbsentNames THEN loaded.vals[i] = None
              ELSE loaded.vals[i] = Some(file.cnt[loaded.args[i]])

\* C7 witness: a load that asked an existing file, which holds another key,
\* for a name it does not hold.
C7_Witness ==
    /\ phase = "loaded"
    /\ file.st = "ok"
    /\ DOMAIN file.cnt # {}
    /\ AbsentNames # {}
    /\ AbsentNames # DOMAIN loaded.args

\* C8 as stated: store(X) then load of the keys of X returns X, key for key
\* and record for record, the conversations keyed as the run holds them.
C8_RoundTrip ==
    phase = "reloaded" =>
        loaded.vals = <<Some(kwargs.news), Some(kwargs.events),
                        Some(kwargs.conversations)>>

\* C8 amended: store(X) then load of the keys of X returns the news and the
\* events of X, and the conversations of X keyed by the str of each
\* conversation id, each with its messages, record for record.
C8_RoundTripStrKeys ==
    phase = "reloaded" =>
        /\ loaded.vals[1] = Some(kwargs.news)
        /\ loaded.vals[2] = Some(kwargs.events)
        /\ loaded.vals[3].some
        /\ DOMAIN loaded.vals[3].val =
              {str(id) : id \in DOMAIN kwargs.conversations}
        /\ \A id \in DOMAIN kwargs.conversations :
              loaded.vals[3].val[str(id)] = kwargs.conversations[id]

\* C8 witness: a round trip of a collection set with news and a tracked
\* conversation that has a message.
C8_Witness ==
    /\ phase = "reloaded"
    /\ kwargs.news # <<>>
    /\ \E id \in DOMAIN kwargs.conversations : kwargs.conversations[id] # <<>>

\* The fragments of the page that have every mandatory field.
WellFormed == SelectSeq(page, LAMBDA n : n.ok)

\* C9: the extraction of a page that has well-formed fragments yields the
\* records of all of them, whatever its other fragments lack.
C9_IsolatedPerRecord ==
    /\ (phase = "news" /\ WellFormed # <<>>) =>
          /\ ~page_news.raised
          /\ page_news.val = [i \in DOMAIN WellFormed |-> NewsRec(WellFormed[i].v)]
    /\ (phase = "conversation" /\ WellFormed # <<>>) =>
          /\ ~page_news.raised
          /\ page_news.val = [i \in DOMAIN WellFormed |-> MessageRec(WellFormed[i].v)]

\* The line breaks of a string: "\r\n" counts once, a lone "\n" once.
LineBreaks(t) == count(t, LF)

\* C10: nl2br(nl2br(s)) = nl2br(s), and every "\r\n" and every "\n" of s
\* becomes exactly one line-break token of nl2br(s).
C10_Nl2brIdempotent ==
    /\ phase = "twice" => twice = once
    /\ phase # "in" => count(once, BR) = count(s, BR) + LineBreaks(s)

\* The second half of C10 alone: one token per line break.
C10_OneTokenPerBreak ==
    phase # "in" => count(once, BR) = count(s, BR) + LineBreaks(s)

====
